---- MODULE Spec2Model ----
(***************************************************************************)
(* taskbridge-mcp: the multi-transport MCP server lifecycle                *)
(* (internal/mcp/server.go), the transport registry and metadata           *)
(* (internal/mcp/transport.go), the mcp start command (internal/cli/mcp.go)*)
(* and the package globals of pkg/logger and internal/config.              *)
(*                                                                         *)
(* The specifications of this module:                                      *)
(*   RegistrySpec  a TransportManager under RegisterTransport/GetTransport *)
(*                 /ListTransports and the transport metadata functions    *)
(*   Spec          one Server, its caller, the shutdown watcher goroutine  *)
(*                 of runHTTPTransport and the environment (context        *)
(*                 cancellation, session end, listener failures)           *)
(*   FairSpec      Spec with weak fairness on the steps of the program     *)
(*   LogSpec       goroutines calling logger.Init, logger.GetLogger,       *)
(*                 logger.GetSugaredLogger and config.GetConfig            *)
(*   StartSpec     startCmd.RunE of mcp start: its watcher goroutine, its  *)
(*                 one Run call and the command context                    *)
(*   FairStartSpec StartSpec with weak fairness on the steps of the program*)
(***************************************************************************)
EXTENDS Integers, FiniteSets, Sequences, TLC

VARIABLES
    \* ---- TransportManager (transport.go:19-21) ----
    transports,     \* tm.transports: map[TransportType]TransportConfig
    ret,            \* what the last registry call returned
    lastReg,        \* history: type -> config of the last successful RegisterTransport
    \* ---- Server (server.go:27-31) and one caller of Run ----
    transportType,  \* s.transportType
    call,           \* number of Run calls made so far on this Server
    pc,             \* where the caller is inside Run
    result,         \* result[r]: return value of the r-th Run call
    ctxDone,        \* ctxDone[r]: the ctx given to the r-th call is cancelled
    cancelPoint,    \* history: where the r-th call was when its ctx was cancelled
    session,        \* session[r]: the ServerSession of runStdio
    waitErr,        \* waitErr[r]: what session.Wait() of the r-th call yields
    memTransports,  \* number of in-memory transport pairs created
    httpSrv,        \* httpSrv[r]: the http.Server of the r-th call
    watcher,        \* watcher[r]: the shutdown goroutine of the r-th call
    attempts,       \* attempts[r]: connect / listen attempts of the r-th call
    failure,        \* history: failure[r]: the transport failure met by the r-th call
    logged,         \* errors written to the log only
    \* ---- package logger (logger.go:17-21) and package config (config.go:37-40) ----
    globalLogger,   \* "nil" or the config the stored *zap.Logger was built from
    globalSugar,    \* "nil" or the config the stored *zap.SugaredLogger was built from
    rlocks,         \* rlocks[t]: read locks of logMutex held by goroutine t
    wlock,          \* the goroutine holding logMutex for writing, or 0
    wpending,       \* the goroutine inside logMutex.Lock() waiting for the readers, or 0
    cfgOnce,        \* cfgOnce: "new", "running" or "done"
    globalConfig,   \* "nil" or "config"
    cfgSynced,      \* history: cfgSynced[t]: t ran or waited for cfgOnce.Do
    lop,            \* lop[t]: the exported function goroutine t is in
    lcfg,           \* lcfg[t]: the LogConfig of the Init goroutine t is running
    lpc,            \* lpc[t]: where goroutine t is
    lout,           \* lout[t]: what the last finished call of t returned
    \* ---- the mcp start command (cli/mcp.go:32-71) ----
    startPc,        \* where startCmd.RunE is: "new", "run" or "returned"
    cmdDone,        \* cmd.Context() is cancelled
    sigWatcher      \* the goroutine of mcp.go:57-63: "none", "select" or "send"

regVars == <<transports, ret, lastReg>>
srvVars == <<transportType, call, pc, result, ctxDone, cancelPoint, session, waitErr,
             memTransports, httpSrv, watcher, attempts, failure, logged>>
logVars == <<globalLogger, globalSugar, rlocks, wlock, wpending, cfgOnce, globalConfig,
             cfgSynced, lop, lcfg, lpc, lout>>
startVars == <<startPc, cmdDone, sigWatcher>>
vars == <<regVars, srvVars, logVars, startVars>>

\* ------------------------------------------------------------------------
\* Bounds
\* ------------------------------------------------------------------------
MaxRuns == 2
MaxAttempts == 2
MaxThreads == 2

\* ------------------------------------------------------------------------
\* Transport types (server.go:15-24)
\* ------------------------------------------------------------------------
TransportStdio == "stdio"
TransportSSE == "sse"
TransportHTTP == "http"

\* strings a TransportType may hold: the three constants, the empty string,
\* a different-case spelling and an unknown name
TypeStrings == {TransportStdio, TransportSSE, TransportHTTP, "", "HTTP", "grpc"}

\* ------------------------------------------------------------------------
\* TransportConfig (transport.go:10-16)
\* ------------------------------------------------------------------------
NoOptions == <<>>
SomeOptions == [path |-> "/mcp"]

TransportConfig == [Type : {"", TransportStdio, TransportSSE, TransportHTTP},
                    Address : {"localhost"},
                    Port : {0, 9090},
                    Timeout : {0, 30},
                    Options : {NoOptions, SomeOptions}]

\* TransportConfig{}: the zero value returned next to a not-found error
ZeroConfig == [Type |-> "", Address |-> "", Port |-> 0, Timeout |-> 0, Options |-> NoOptions]

NewTransportManager == <<>>

ErrNil == "nil"
ErrEmptyType == "transport type cannot be empty"
ErrNotFound == "transport not found"

\* a map store tm.transports[k] = v
MapStore(m, k, v) == [x \in (DOMAIN m) \cup {k} |-> IF x = k THEN v ELSE m[x]]

\* mutant: the empty-type guard is missing
RegisterTransportNoGuard(tm, config) ==
    [tm |-> MapStore(tm, config.Type, config), err |-> ErrNil]

\* mutant: an existing entry is kept (first write wins)
RegisterTransportKeepFirst(tm, config) ==
    IF config.Type = ""
    THEN [tm |-> tm, err |-> ErrEmptyType]
    ELSE [tm |-> IF config.Type \in DOMAIN tm THEN tm ELSE MapStore(tm, config.Type, config),
          err |-> ErrNil]

\* RegisterTransport (transport.go:31-40): the new map and the returned error
RegisterTransportOp(tm, config) ==
    IF config.Type = ""
    THEN [tm |-> tm, err |-> ErrEmptyType]
    ELSE [tm |-> MapStore(tm, config.Type, config), err |-> ErrNil]

\* mutant: a missing key yields the zero config without an error
GetTransportNoError(tm, t) ==
    IF t \in DOMAIN tm
    THEN [config |-> tm[t], err |-> ErrNil]
    ELSE [config |-> ZeroConfig, err |-> ErrNil]

\* GetTransport (transport.go:43-50)
GetTransportOp(tm, t) ==
    IF t \in DOMAIN tm
    THEN [config |-> tm[t], err |-> ErrNil]
    ELSE [config |-> ZeroConfig, err |-> ErrNotFound]

NoRet == [op |-> "none"]

RegInit ==
    /\ transports = NewTransportManager
    /\ ret = NoRet
    /\ lastReg = <<>>

\* the registry calls a TransportType argument is drawn from
RegTypes == {"", TransportStdio, TransportSSE, TransportHTTP, "grpc"}

RegisterTransport ==
    \E config \in TransportConfig :
        LET r == RegisterTransportOp(transports, config) IN
        /\ transports' = r.tm
        /\ ret' = [op |-> "register", arg |-> config, err |-> r.err, before |-> transports]
        /\ lastReg' = IF r.err = ErrNil THEN MapStore(lastReg, config.Type, config) ELSE lastReg
        /\ UNCHANGED <<srvVars, logVars, startVars>>

GetTransport ==
    \E t \in RegTypes :
        LET r == GetTransportOp(transports, t) IN
        /\ ret' = [op |-> "get", arg |-> t, err |-> r.err, config |-> r.config]
        /\ UNCHANGED <<transports, lastReg>>
        /\ UNCHANGED <<srvVars, logVars, startVars>>

\* the orders in which a range over a Go map may visit the keys S
Perms(S) ==
    {p \in [1..Cardinality(S) -> S] : \A i, j \in 1..Cardinality(S) : i # j => p[i] # p[j]}

\* mutant: the slice is made with length len(tm.transports), not capacity, so
\* the appended keys follow that many zero values
ListTransportsMakeLen(tm) ==
    {[i \in 1..(2 * Cardinality(DOMAIN tm)) |->
        IF i <= Cardinality(DOMAIN tm) THEN "" ELSE p[i - Cardinality(DOMAIN tm)]] :
     p \in Perms(DOMAIN tm)}

\* ListTransports (transport.go:53-60): the slices the call may return, one
\* per iteration order of the map
ListTransportsOp(tm) == Perms(DOMAIN tm)

ListTransports ==
    \E types \in ListTransportsOp(transports) :
        /\ ret' = [op |-> "list", types |-> types]
        /\ UNCHANGED <<transports, lastReg>>
        /\ UNCHANGED <<srvVars, logVars, startVars>>

\* ------------------------------------------------------------------------
\* Server (server.go)
\* ------------------------------------------------------------------------
Runs == 1..MaxRuns

ErrUnsupported == "unsupported transport type"
ErrConnect == "connect failed"
ErrSession == "session failed"
ErrBind == "bind failed"
ErrAccept == "accept failed"
ErrServerClosed == "http: Server closed"
ErrClose == "listener close failed"

\* &http.Server{Addr, Handler} (server.go:152-155)
NewHTTPServer == [inShutdown |-> FALSE, listener |-> "none", lnerr |-> "none"]

\* NewServer (server.go:34-49): any TransportType value may be passed in
SrvInit ==
    /\ transportType \in TypeStrings
    /\ call = 0
    /\ pc = "idle"
    /\ result = [r \in Runs |-> "none"]
    /\ ctxDone = [r \in Runs |-> FALSE]
    /\ cancelPoint = [r \in Runs |-> "none"]
    /\ session = [r \in Runs |-> "none"]
    /\ waitErr = [r \in Runs |-> "none"]
    /\ memTransports = 0
    /\ httpSrv = [r \in Runs |-> NewHTTPServer]
    /\ watcher = [r \in Runs |-> "none"]
    /\ attempts = [r \in Runs |-> 0]
    /\ failure = [r \in Runs |-> "none"]
    /\ logged = {}

\* mutant: an unknown type falls back to stdio
DispatchDefaultStdio(t) ==
    CASE t = TransportStdio -> "runStdio"
      [] t = TransportSSE -> "runSSE"
      [] t = TransportHTTP -> "runHTTP"
      [] OTHER -> "runStdio"

\* the switch of Run (server.go:107-116)
Dispatch(t) ==
    CASE t = TransportStdio -> "runStdio"
      [] t = TransportSSE -> "runSSE"
      [] t = TransportHTTP -> "runHTTP"
      [] OTHER -> "unsupported"

\* mutant: the server-closed error is returned like any other
RunHTTPResultNoClosedCheck(err) == err

\* mutant: every serve error is swallowed
RunHTTPResultSwallow(err) == ErrNil

\* what runHTTPTransport returns for ListenAndServe's error (server.go:169-176)
RunHTTPResult(err) ==
    IF err # ErrNil /\ err # ErrServerClosed THEN err ELSE ErrNil

\* what runStdio returns for session.Wait's error (server.go:134-141)
RunStdioResult(err) ==
    IF err # ErrNil THEN err ELSE ErrNil

\* mutant: the default branch stores a fallback type in the Server
RunTransportTypeFallback(t) ==
    IF t \in {TransportStdio, TransportSSE, TransportHTTP} THEN t ELSE TransportStdio

\* s.transportType after Run: Run only reads the field (server.go:107)
RunTransportType(t) == t

\* environment: the ctx handed to the r-th call is cancelled
Cancel(r) ==
    /\ ~ctxDone[r]
    /\ ctxDone' = [ctxDone EXCEPT ![r] = TRUE]
    /\ cancelPoint' = [cancelPoint EXCEPT ![r] =
                          IF r = call THEN pc ELSE IF r > call THEN "before" ELSE "returned"]
    /\ UNCHANGED <<transportType, call, pc, result, session, waitErr, memTransports,
                   httpSrv, watcher, attempts, failure, logged>>
    /\ UNCHANGED <<regVars, logVars, startVars>>

\* Run (server.go:106-117) up to the first blocking call of the chosen routine:
\*   runStdio (120-124) creates the in-memory transport pair;
\*   runSSE/runHTTP (180-197) build the handler and runHTTPTransport (145-166)
\*   builds the http.Server and starts the shutdown goroutine;
\*   default returns the unsupported-transport error.
Run ==
    /\ pc \in {"idle", "returned"}
    /\ call < MaxRuns
    /\ call' = call + 1
    /\ LET r == call + 1
           b == Dispatch(transportType) IN
       CASE b = "runStdio" ->
              /\ memTransports' = memTransports + 1
              /\ pc' = "connect"
              /\ UNCHANGED <<result, watcher>>
         [] b \in {"runSSE", "runHTTP"} ->
              /\ watcher' = [watcher EXCEPT ![r] = "waiting"]
              /\ pc' = "listen"
              /\ UNCHANGED <<result, memTransports>>
         [] OTHER ->
              /\ result' = [result EXCEPT ![r] = ErrUnsupported]
              /\ pc' = "returned"
              /\ UNCHANGED <<watcher, memTransports>>
    /\ transportType' = RunTransportType(transportType)
    /\ UNCHANGED <<ctxDone, cancelPoint, session, waitErr, httpSrv,
                   attempts, failure, logged>>
    /\ UNCHANGED <<regVars, logVars, startVars>>

\* ---- runStdio (server.go:120-142) -------------------------------------

\* mutant: a failed connect is tried again
ConnectNextRetry(ok) == IF ok THEN "wait" ELSE "connect"

\* where runStdio goes after s.mcpServer.Connect (server.go:127-131)
ConnectNext(ok) == IF ok THEN "wait" ELSE "returned"

\* s.mcpServer.Connect(ctx, serverTransport, nil) and its error check
Connect ==
    /\ pc = "connect"
    /\ attempts[call] < MaxAttempts
    /\ attempts' = [attempts EXCEPT ![call] = @ + 1]
    /\ \E ok \in BOOLEAN :
         /\ pc' = ConnectNext(ok)
         /\ session' = [session EXCEPT ![call] = IF ok THEN "open" ELSE @]
         /\ failure' = [failure EXCEPT ![call] = IF ok THEN @ ELSE ErrConnect]
         /\ result' = [result EXCEPT ![call] =
                          IF ConnectNext(ok) = "returned" THEN ErrConnect ELSE @]
    /\ UNCHANGED <<transportType, call, ctxDone, cancelPoint, waitErr, memTransports,
                   httpSrv, watcher, logged>>
    /\ UNCHANGED <<regVars, logVars, startVars>>

\* environment: the session of the current call completes (the peer closes the
\* stream, or the connection breaks); nothing in runStdio ties it to ctx
SessionEnd ==
    /\ call \in Runs
    /\ session[call] = "open"
    /\ \E e \in {ErrNil, ErrSession} :
         /\ session' = [session EXCEPT ![call] = "ended"]
         /\ waitErr' = [waitErr EXCEPT ![call] = e]
    /\ UNCHANGED <<transportType, call, pc, result, ctxDone, cancelPoint, memTransports,
                   httpSrv, watcher, attempts, failure, logged>>
    /\ UNCHANGED <<regVars, logVars, startVars>>

\* session.Wait() returns and runStdio returns its error or nil (server.go:134-141)
Wait ==
    /\ pc = "wait"
    /\ session[call] = "ended"
    /\ pc' = "returned"
    /\ result' = [result EXCEPT ![call] = RunStdioResult(waitErr[call])]
    /\ failure' = [failure EXCEPT ![call] = IF waitErr[call] # ErrNil THEN waitErr[call] ELSE @]
    /\ UNCHANGED <<transportType, call, ctxDone, cancelPoint, session, waitErr,
                   memTransports, httpSrv, watcher, attempts, logged>>
    /\ UNCHANGED <<regVars, logVars, startVars>>

\* ---- runHTTPTransport (server.go:145-177) -----------------------------

\* the goroutine of server.go:158-164 passes <-ctx.Done() and enters
\* httpServer.Shutdown: the server is marked shutting down and its tracked
\* listener is closed; the close may fail
WatcherShutdown(r) ==
    /\ watcher[r] = "waiting"
    /\ ctxDone[r]
    /\ watcher' = [watcher EXCEPT ![r] = "shutdown"]
    /\ \E e \in {ErrNil, ErrClose} :
         /\ (e = ErrClose) => httpSrv[r].listener = "tracked"
         /\ httpSrv' = [httpSrv EXCEPT ![r] =
                           [inShutdown |-> TRUE,
                            listener |-> IF @.listener = "tracked" THEN "closed" ELSE @.listener,
                            lnerr |-> e]]
    /\ UNCHANGED <<transportType, call, pc, result, ctxDone, cancelPoint, session, waitErr,
                   memTransports, attempts, failure, logged>>
    /\ UNCHANGED <<regVars, logVars, startVars>>

\* Shutdown returns (the connections have drained); its error is logged
\* (server.go:161-163) and the goroutine ends
WatcherDone(r) ==
    /\ watcher[r] = "shutdown"
    /\ watcher' = [watcher EXCEPT ![r] = "done"]
    /\ logged' = IF httpSrv[r].lnerr # ErrNil THEN logged \cup {httpSrv[r].lnerr} ELSE logged
    /\ UNCHANGED <<transportType, call, pc, result, ctxDone, cancelPoint, session, waitErr,
                   memTransports, httpSrv, attempts, failure>>
    /\ UNCHANGED <<regVars, logVars, startVars>>

\* httpServer.ListenAndServe() (server.go:169) begins: a server already
\* shutting down yields ErrServerClosed
ListenAndServe ==
    /\ pc = "listen"
    /\ attempts[call] < MaxAttempts
    /\ attempts' = [attempts EXCEPT ![call] = @ + 1]
    /\ IF httpSrv[call].inShutdown
       THEN /\ pc' = "returned"
            /\ result' = [result EXCEPT ![call] = RunHTTPResult(ErrServerClosed)]
       ELSE /\ pc' = "bind"
            /\ UNCHANGED result
    /\ UNCHANGED <<transportType, call, ctxDone, cancelPoint, session, waitErr,
                   memTransports, httpSrv, watcher, failure, logged>>
    /\ UNCHANGED <<regVars, logVars, startVars>>

\* mutant: a failed bind is tried again
BindNextRetry(ok) == IF ok THEN "track" ELSE "listen"

\* where ListenAndServe goes after net.Listen
BindNext(ok) == IF ok THEN "track" ELSE "returned"

\* net.Listen inside ListenAndServe: the port is bound or the bind error is
\* returned (server.go:169-172)
Listen ==
    /\ pc = "bind"
    /\ \E ok \in BOOLEAN :
         /\ pc' = BindNext(ok)
         /\ httpSrv' = [httpSrv EXCEPT ![call].listener = IF ok THEN "bound" ELSE @]
         /\ failure' = [failure EXCEPT ![call] = IF ok THEN @ ELSE ErrBind]
         /\ result' = [result EXCEPT ![call] =
                          IF BindNext(ok) = "returned" THEN RunHTTPResult(ErrBind) ELSE @]
    /\ UNCHANGED <<transportType, call, ctxDone, cancelPoint, session, waitErr,
                   memTransports, watcher, attempts, logged>>
    /\ UNCHANGED <<regVars, logVars, startVars>>

\* Serve registers the listener; a server already shutting down closes it and
\* yields ErrServerClosed
Serve ==
    /\ pc = "track"
    /\ IF httpSrv[call].inShutdown
       THEN /\ httpSrv' = [httpSrv EXCEPT ![call].listener = "closed"]
            /\ pc' = "returned"
            /\ result' = [result EXCEPT ![call] = RunHTTPResult(ErrServerClosed)]
       ELSE /\ httpSrv' = [httpSrv EXCEPT ![call].listener = "tracked"]
            /\ pc' = "serving"
            /\ UNCHANGED result
    /\ UNCHANGED <<transportType, call, ctxDone, cancelPoint, session, waitErr,
                   memTransports, watcher, attempts, failure, logged>>
    /\ UNCHANGED <<regVars, logVars, startVars>>

\* the accept loop ends after Shutdown closed the listener: ErrServerClosed,
\* which runHTTPTransport turns into nil (server.go:169-176)
ServeClosed ==
    /\ pc = "serving"
    /\ httpSrv[call].inShutdown
    /\ pc' = "returned"
    /\ result' = [result EXCEPT ![call] = RunHTTPResult(ErrServerClosed)]
    /\ UNCHANGED <<transportType, call, ctxDone, cancelPoint, session, waitErr,
                   memTransports, httpSrv, watcher, attempts, failure, logged>>
    /\ UNCHANGED <<regVars, logVars, startVars>>

\* environment: Accept fails for good while the server is not shutting down;
\* Serve closes the listener and returns the error
AcceptFail ==
    /\ pc = "serving"
    /\ ~httpSrv[call].inShutdown
    /\ httpSrv' = [httpSrv EXCEPT ![call].listener = "closed"]
    /\ failure' = [failure EXCEPT ![call] = ErrAccept]
    /\ pc' = "returned"
    /\ result' = [result EXCEPT ![call] = RunHTTPResult(ErrAccept)]
    /\ UNCHANGED <<transportType, call, ctxDone, cancelPoint, session, waitErr,
                   memTransports, watcher, attempts, logged>>
    /\ UNCHANGED <<regVars, logVars, startVars>>

\* ---- transport metadata (transport.go:62-134) --------------------------

\* mutant: the type is lower-cased before the switch
ValidateTransportTypeFold(t) ==
    IF t \in {TransportStdio, TransportSSE, TransportHTTP, "HTTP"}
    THEN ErrNil
    ELSE ErrUnsupported

\* ValidateTransportType (transport.go:63-70)
ValidateTransportTypeOp(t) ==
    CASE t \in {TransportStdio, TransportSSE, TransportHTTP} -> ErrNil
      [] OTHER -> ErrUnsupported

\* the record returned for a type that is no key of the features map
\* (transport.go:129-133)
UnknownFeatures ==
    [Name |-> "Unknown", Description |-> "Unknown transport type", IsStreaming |-> FALSE,
     RequiresHTTP |-> FALSE, DefaultPort |-> 0, Capabilities |-> <<>>]

\* the features map literal (transport.go:99-123); the Name of the http entry
\* ends in a star glyph in the source, left out here
TransportFeatures ==
    [t \in {TransportStdio, TransportSSE, TransportHTTP} |->
        CASE t = TransportStdio ->
               [Name |-> "Standard Input/Output",
                Description |-> "Direct CLI communication using stdin/stdout",
                IsStreaming |-> FALSE, RequiresHTTP |-> FALSE, DefaultPort |-> 0,
                Capabilities |-> <<"tools", "resources", "prompts", "sampling">>]
          [] t = TransportSSE ->
               [Name |-> "Server-Sent Events",
                Description |-> "Alternative HTTP-based streaming communication",
                IsStreaming |-> TRUE, RequiresHTTP |-> TRUE, DefaultPort |-> 8080,
                Capabilities |-> <<"tools", "resources", "prompts", "sampling">>]
          [] t = TransportHTTP ->
               [Name |-> "Streaming HTTP (RECOMMENDED)",
                Description |->
                    "Best performance streaming HTTP transport - MCP community standard",
                IsStreaming |-> TRUE, RequiresHTTP |-> TRUE, DefaultPort |-> 8080,
                Capabilities |-> <<"tools", "resources", "prompts", "sampling", "streaming">>]]

\* mutant: the map has no entry for sse
GetTransportFeaturesNoSSE(t) ==
    IF t \in {TransportStdio, TransportHTTP} THEN TransportFeatures[t] ELSE UnknownFeatures

\* GetTransportFeatures (transport.go:98-134)
GetTransportFeaturesOp(t) ==
    IF t \in DOMAIN TransportFeatures THEN TransportFeatures[t] ELSE UnknownFeatures

\* the slice serverListCmd ranges over (part_000:72-76)
serverListTransports == <<TransportStdio, TransportSSE, TransportHTTP>>

\* the block serverListCmd writes for one transport (part_000:83-95): the
\* port line only for a non-zero port, the capabilities line only when there
\* are capabilities
serverListBlock(t) ==
    LET features == GetTransportFeaturesOp(t) IN
    [Transport |-> features.Name,
     Description |-> features.Description,
     Streaming |-> features.IsStreaming,
     RequiresHTTP |-> features.RequiresHTTP,
     DefaultPort |-> IF features.DefaultPort # 0 THEN features.DefaultPort ELSE "omitted",
     Capabilities |-> IF Len(features.Capabilities) > 0 THEN features.Capabilities ELSE "omitted"]

\* serverListCmd.RunE (part_000:71-101): one block per transport, in order
serverListCmd ==
    /\ ret' = [op |-> "server list",
               out |-> [i \in DOMAIN serverListTransports |->
                           serverListBlock(serverListTransports[i])]]
    /\ UNCHANGED <<transports, lastReg>>
    /\ UNCHANGED <<srvVars, logVars, startVars>>

GetTransportFeatures ==
    \E t \in TypeStrings :
        /\ ret' = [op |-> "features", arg |-> t, features |-> GetTransportFeaturesOp(t)]
        /\ UNCHANGED <<transports, lastReg>>
        /\ UNCHANGED <<srvVars, logVars, startVars>>

ValidateTransportType ==
    \E t \in TypeStrings :
        /\ ret' = [op |-> "validate", arg |-> t, err |-> ValidateTransportTypeOp(t)]
        /\ UNCHANGED <<transports, lastReg>>
        /\ UNCHANGED <<srvVars, logVars, startVars>>

\* ------------------------------------------------------------------------
\* package logger (logger.go) and package config (config.go): goroutines
\* calling Init, GetLogger, GetSugaredLogger and GetConfig
\* ------------------------------------------------------------------------
Threads == 1..MaxThreads

LogInit ==
    /\ globalLogger = "nil"
    /\ globalSugar = "nil"
    /\ rlocks = [t \in Threads |-> 0]
    /\ wlock = 0
    /\ wpending = 0
    /\ cfgOnce = "new"
    /\ globalConfig = "nil"
    /\ cfgSynced = [t \in Threads |-> FALSE]
    /\ lop = [t \in Threads |-> "none"]
    /\ lcfg = [t \in Threads |-> "none"]
    /\ lpc = [t \in Threads |-> "idle"]
    /\ lout = [t \in Threads |-> "none"]

\* goroutine t calls Init(cfg) (logger.go:77), e.g. from initConfig
CallInit(t) ==
    /\ lpc[t] = "idle"
    /\ \E cfg \in {"default", "custom"} :
         lcfg' = [lcfg EXCEPT ![t] = cfg]
    /\ lop' = [lop EXCEPT ![t] = "Init"]
    /\ lpc' = [lpc EXCEPT ![t] = "init_mkdir"]
    /\ UNCHANGED <<globalLogger, globalSugar, rlocks, wlock, wpending, cfgOnce, globalConfig,
                   cfgSynced, lout>>
    /\ UNCHANGED <<regVars, srvVars, startVars>>

\* goroutine t calls GetLogger (logger.go:156) or GetSugaredLogger (170)
CallGet(t) ==
    /\ lpc[t] = "idle"
    /\ \E f \in {"GetLogger", "GetSugaredLogger"} :
         lop' = [lop EXCEPT ![t] = f]
    /\ lpc' = [lpc EXCEPT ![t] = "rlock"]
    /\ UNCHANGED <<globalLogger, globalSugar, rlocks, wlock, wpending, cfgOnce, globalConfig,
                   cfgSynced, lcfg, lout>>
    /\ UNCHANGED <<regVars, srvVars, startVars>>

\* logMutex.RLock() (logger.go:157, 171): waits while a writer holds the lock
\* or is inside Lock
RLock(t) ==
    /\ lpc[t] = "rlock"
    /\ wlock = 0
    /\ wpending = 0
    /\ rlocks' = [rlocks EXCEPT ![t] = @ + 1]
    /\ lpc' = [lpc EXCEPT ![t] = "check"]
    /\ UNCHANGED <<globalLogger, globalSugar, wlock, wpending, cfgOnce, globalConfig,
                   cfgSynced, lop, lcfg, lout>>
    /\ UNCHANGED <<regVars, srvVars, startVars>>

\* the global a getter reads
Global(f) == IF f = "GetLogger" THEN globalLogger ELSE globalSugar

\* if globalLogger == nil / if globalSugar == nil (logger.go:160-163, 174-177):
\* nil calls Init(DefaultLogConfig()) with the read lock still held
Check(t) ==
    /\ lpc[t] = "check"
    /\ LET isNil == Global(lop[t]) = "nil" IN
       /\ lpc' = [lpc EXCEPT ![t] = IF isNil THEN "init_mkdir" ELSE "get_ret"]
       /\ lcfg' = [lcfg EXCEPT ![t] = IF isNil THEN "default" ELSE @]
    /\ UNCHANGED <<globalLogger, globalSugar, rlocks, wlock, wpending, cfgOnce, globalConfig,
                   cfgSynced, lop, lout>>
    /\ UNCHANGED <<regVars, srvVars, startVars>>

\* Init's return to its caller: to the goroutine's idle loop, or back into the
\* getter that called it
InitReturn(f) == IF f = "Init" THEN "idle" ELSE "get_ret"

\* os.MkdirAll(cfg.LogDir) (logger.go:83-87): on failure Init returns the error
InitMkdir(t) ==
    /\ lpc[t] = "init_mkdir"
    /\ \E ok \in BOOLEAN :
         /\ lpc' = [lpc EXCEPT ![t] = IF ok THEN "init_sugar" ELSE InitReturn(lop[t])]
         /\ lout' = [lout EXCEPT ![t] = IF ~ok /\ lop[t] = "Init" THEN "mkdir failed" ELSE @]
         /\ lop' = [lop EXCEPT ![t] = IF ~ok /\ @ = "Init" THEN "none" ELSE @]
    /\ UNCHANGED <<globalLogger, globalSugar, rlocks, wlock, wpending, cfgOnce, globalConfig,
                   cfgSynced, lcfg>>
    /\ UNCHANGED <<regVars, srvVars, startVars>>

\* logger := zap.New(...); globalSugar = logger.Sugar() (logger.go:144-145)
InitSugar(t) ==
    /\ lpc[t] = "init_sugar"
    /\ globalSugar' = lcfg[t]
    /\ lpc' = [lpc EXCEPT ![t] = "init_lock"]
    /\ UNCHANGED <<globalLogger, rlocks, wlock, wpending, cfgOnce, globalConfig,
                   cfgSynced, lop, lcfg, lout>>
    /\ UNCHANGED <<regVars, srvVars, startVars>>

\* logMutex.Lock() begins (logger.go:147): one writer at a time announces
\* itself, which holds back new readers
InitLock(t) ==
    /\ lpc[t] = "init_lock"
    /\ wlock = 0
    /\ wpending = 0
    /\ wpending' = t
    /\ lpc' = [lpc EXCEPT ![t] = "init_acquire"]
    /\ UNCHANGED <<globalLogger, globalSugar, rlocks, wlock, cfgOnce, globalConfig,
                   cfgSynced, lop, lcfg, lout>>
    /\ UNCHANGED <<regVars, srvVars, startVars>>

\* logMutex.Lock() returns once every read lock is released
InitAcquire(t) ==
    /\ lpc[t] = "init_acquire"
    /\ \A u \in Threads : rlocks[u] = 0
    /\ wlock' = t
    /\ wpending' = 0
    /\ lpc' = [lpc EXCEPT ![t] = "init_store"]
    /\ UNCHANGED <<globalLogger, globalSugar, rlocks, cfgOnce, globalConfig,
                   cfgSynced, lop, lcfg, lout>>
    /\ UNCHANGED <<regVars, srvVars, startVars>>

\* globalLogger = logger; return nil, with the deferred Unlock (logger.go:148-152)
InitStore(t) ==
    /\ lpc[t] = "init_store"
    /\ globalLogger' = lcfg[t]
    /\ wlock' = 0
    /\ lpc' = [lpc EXCEPT ![t] = InitReturn(lop[t])]
    /\ lout' = [lout EXCEPT ![t] = IF lop[t] = "Init" THEN ErrNil ELSE @]
    /\ lop' = [lop EXCEPT ![t] = IF @ = "Init" THEN "none" ELSE @]
    /\ UNCHANGED <<globalSugar, rlocks, wpending, cfgOnce, globalConfig, cfgSynced, lcfg>>
    /\ UNCHANGED <<regVars, srvVars, startVars>>

\* return globalLogger / return globalSugar, with the deferred RUnlock
\* (logger.go:158, 163, 166 and 172, 177, 180)
GetReturn(t) ==
    /\ lpc[t] = "get_ret"
    /\ lout' = [lout EXCEPT ![t] = Global(lop[t])]
    /\ rlocks' = [rlocks EXCEPT ![t] = 0]
    /\ lop' = [lop EXCEPT ![t] = "none"]
    /\ lpc' = [lpc EXCEPT ![t] = "idle"]
    /\ UNCHANGED <<globalLogger, globalSugar, wlock, wpending, cfgOnce, globalConfig,
                   cfgSynced, lcfg>>
    /\ UNCHANGED <<regVars, srvVars, startVars>>

\* ---- package config (config.go:43-81) ---------------------------------

\* goroutine t calls GetConfig (config.go:75)
CallGetConfig(t) ==
    /\ lpc[t] = "idle"
    /\ lop' = [lop EXCEPT ![t] = "GetConfig"]
    /\ lpc' = [lpc EXCEPT ![t] = "cfg_check"]
    /\ UNCHANGED <<globalLogger, globalSugar, rlocks, wlock, wpending, cfgOnce, globalConfig,
                   cfgSynced, lcfg, lout>>
    /\ UNCHANGED <<regVars, srvVars, startVars>>

\* if globalConfig == nil (config.go:76): a plain read, outside cfgOnce
CfgCheck(t) ==
    /\ lpc[t] = "cfg_check"
    /\ lpc' = [lpc EXCEPT ![t] = IF globalConfig = "nil" THEN "cfg_do" ELSE "cfg_ret"]
    /\ UNCHANGED <<globalLogger, globalSugar, rlocks, wlock, wpending, cfgOnce, globalConfig,
                   cfgSynced, lop, lcfg, lout>>
    /\ UNCHANGED <<regVars, srvVars, startVars>>

\* cfgOnce.Do (config.go:44): the first caller runs the function; a caller
\* arriving while it runs waits for it; a caller arriving after it returns at once
CfgDo(t) ==
    /\ lpc[t] = "cfg_do"
    /\ cfgOnce # "running"
    /\ IF cfgOnce = "new"
       THEN /\ cfgOnce' = "running"
            /\ lpc' = [lpc EXCEPT ![t] = "cfg_store"]
       ELSE /\ lpc' = [lpc EXCEPT ![t] = "cfg_ret"]
            /\ UNCHANGED cfgOnce
    /\ cfgSynced' = [cfgSynced EXCEPT ![t] = TRUE]
    /\ UNCHANGED <<globalLogger, globalSugar, rlocks, wlock, wpending, globalConfig,
                   lop, lcfg, lout>>
    /\ UNCHANGED <<regVars, srvVars, startVars>>

\* the function given to Do loads the environment and stores the config
\* (config.go:46-70)
CfgStore(t) ==
    /\ lpc[t] = "cfg_store"
    /\ globalConfig' = "config"
    /\ lpc' = [lpc EXCEPT ![t] = "cfg_done"]
    /\ UNCHANGED <<globalLogger, globalSugar, rlocks, wlock, wpending, cfgOnce,
                   cfgSynced, lop, lcfg, lout>>
    /\ UNCHANGED <<regVars, srvVars, startVars>>

\* the function returns and Do marks the Once done (config.go:71)
CfgDone(t) ==
    /\ lpc[t] = "cfg_done"
    /\ cfgOnce' = "done"
    /\ lpc' = [lpc EXCEPT ![t] = "cfg_ret"]
    /\ UNCHANGED <<globalLogger, globalSugar, rlocks, wlock, wpending, globalConfig,
                   cfgSynced, lop, lcfg, lout>>
    /\ UNCHANGED <<regVars, srvVars, startVars>>

\* return globalConfig, nil (config.go:80)
CfgReturn(t) ==
    /\ lpc[t] = "cfg_ret"
    /\ lout' = [lout EXCEPT ![t] = globalConfig]
    /\ lop' = [lop EXCEPT ![t] = "none"]
    /\ lpc' = [lpc EXCEPT ![t] = "idle"]
    /\ UNCHANGED <<globalLogger, globalSugar, rlocks, wlock, wpending, cfgOnce, globalConfig,
                   cfgSynced, lcfg>>
    /\ UNCHANGED <<regVars, srvVars, startVars>>

\* ------------------------------------------------------------------------
\* The mcp start command (cli/mcp.go:32-71)
\* ------------------------------------------------------------------------

\* before RunE runs: no context, no channel, no watcher goroutine
StartInit ==
    /\ startPc = "new"
    /\ cmdDone = FALSE
    /\ sigWatcher = "none"

\* the transport the command gives to NewServer for a --transport flag
\* (mcp.go:40-44): the empty flag means stdio
startTransport(flag) == IF flag = "" THEN TransportStdio ELSE flag

\* RunE up to the call of server.Run (mcp.go:33-63): the flag is defaulted,
\* the Server is built, ctx and sigChan are made and the watcher goroutine is
\* started.  Until this step transportType holds the --transport flag.
startCmd ==
    /\ startPc = "new"
    /\ transportType' = startTransport(transportType)
    /\ startPc' = "run"
    /\ sigWatcher' = "select"
    /\ UNCHANGED <<call, pc, result, ctxDone, cancelPoint, session, waitErr,
                   memTransports, httpSrv, watcher, attempts, failure, logged>>
    /\ UNCHANGED <<cmdDone, regVars, logVars>>

\* server.Run(ctx) is called, once (mcp.go:65)
startRun ==
    /\ startPc = "run"
    /\ call = 0
    /\ Run

\* environment: the command context is cancelled (the shutdown request)
cmdCancel ==
    /\ ~cmdDone
    /\ cmdDone' = TRUE
    /\ UNCHANGED <<startPc, sigWatcher, regVars, srvVars, logVars>>

\* cancel() on the ctx of the one Run call; a second cancel changes nothing
cancelCtx ==
    /\ ctxDone' = [ctxDone EXCEPT ![1] = TRUE]
    /\ cancelPoint' = [cancelPoint EXCEPT ![1] =
                          IF ctxDone[1] THEN @
                          ELSE IF call = 0 THEN "before" ELSE pc]

\* the watcher goroutine (mcp.go:57-63): its select fires on
\* <-cmd.Context().Done(), it calls cancel() and reaches the send
\* sigChan <- struct{}{}.  sigChan is unbuffered (mcp.go:56) and nothing in
\* RunE receives from it, so the send has no step: the goroutine stays there.
sigWatcherCancel ==
    /\ sigWatcher = "select"
    /\ cmdDone
    /\ cancelCtx
    /\ sigWatcher' = "send"
    /\ UNCHANGED <<transportType, call, pc, result, session, waitErr, memTransports,
                   httpSrv, watcher, attempts, failure, logged>>
    /\ UNCHANGED <<startPc, cmdDone, regVars, logVars>>

\* RunE returns what Run returned (mcp.go:65-70); the deferred cancel() of
\* mcp.go:53 runs
startReturn ==
    /\ startPc = "run"
    /\ call = 1
    /\ pc = "returned"
    /\ startPc' = "returned"
    /\ cancelCtx
    /\ UNCHANGED <<transportType, call, pc, result, session, waitErr, memTransports,
                   httpSrv, watcher, attempts, failure, logged>>
    /\ UNCHANGED <<cmdDone, sigWatcher, regVars, logVars>>

\* ------------------------------------------------------------------------
\* Specifications
\* ------------------------------------------------------------------------
Init == SrvInit /\ RegInit /\ LogInit /\ StartInit

Next ==
    \/ Run
    \/ \E r \in Runs : Cancel(r)
    \/ Connect
    \/ SessionEnd
    \/ Wait
    \/ \E r \in Runs : WatcherShutdown(r)
    \/ \E r \in Runs : WatcherDone(r)
    \/ ListenAndServe
    \/ Listen
    \/ Serve
    \/ ServeClosed
    \/ AcceptFail

Spec == Init /\ [][Next]_vars

\* the goroutines of the program are scheduled; the environment (Cancel,
\* SessionEnd, AcceptFail, a drained Shutdown) and further Run calls are not
\* obliged to happen
FairSpec ==
    /\ Spec
    /\ WF_vars(Connect)
    /\ WF_vars(Wait)
    /\ WF_vars(ListenAndServe)
    /\ WF_vars(Listen)
    /\ WF_vars(Serve)
    /\ WF_vars(ServeClosed)
    /\ \A r \in Runs : WF_vars(WatcherShutdown(r))

RegTypeInit == SrvInit /\ RegInit /\ LogInit /\ StartInit /\ transportType = TransportStdio

RegistryNext ==
    \/ RegisterTransport
    \/ GetTransport
    \/ ListTransports
    \/ ValidateTransportType
    \/ GetTransportFeatures
    \/ serverListCmd

RegistrySpec == RegTypeInit /\ [][RegistryNext]_vars

StartNext ==
    \/ startCmd
    \/ startRun
    \/ cmdCancel
    \/ sigWatcherCancel
    \/ startReturn
    \/ Connect
    \/ SessionEnd
    \/ Wait
    \/ \E r \in Runs : WatcherShutdown(r)
    \/ \E r \in Runs : WatcherDone(r)
    \/ ListenAndServe
    \/ Listen
    \/ Serve
    \/ ServeClosed
    \/ AcceptFail

StartSpec == Init /\ [][StartNext]_vars

\* RunE and the goroutines it starts are scheduled; the shutdown request,
\* the end of the session, listener failures and a drained Shutdown are not
\* obliged to happen
FairStartSpec ==
    /\ StartSpec
    /\ WF_vars(startCmd)
    /\ WF_vars(startRun)
    /\ WF_vars(sigWatcherCancel)
    /\ WF_vars(startReturn)
    /\ WF_vars(Connect)
    /\ WF_vars(Wait)
    /\ WF_vars(ListenAndServe)
    /\ WF_vars(Listen)
    /\ WF_vars(Serve)
    /\ WF_vars(ServeClosed)
    /\ \A r \in Runs : WF_vars(WatcherShutdown(r))

\* ------------------------------------------------------------------------
\* Properties
\* ------------------------------------------------------------------------
Supported == {TransportStdio, TransportSSE, TransportHTTP}
IsHTTPKind == transportType \in {TransportSSE, TransportHTTP}
Returned(r) == result[r] # "none"

\* C1: a Server whose transport type is none of stdio, sse, http: every Run
\* call returns the unsupported-transport error, and no in-memory transport,
\* session, http listener, shutdown goroutine or connect/listen attempt exists.
C1_UnsupportedAllocatesNothing ==
    transportType \notin Supported =>
        /\ pc \in {"idle", "returned"}
        /\ \A r \in Runs : r <= call => result[r] = ErrUnsupported
        /\ memTransports = 0
        /\ \A r \in Runs :
             /\ session[r] = "none"
             /\ watcher[r] = "none"
             /\ httpSrv[r] = NewHTTPServer
             /\ attempts[r] = 0

C1_Witness ==
    /\ transportType \notin Supported
    /\ call >= 1
    /\ pc = "returned"
    /\ result[1] = ErrUnsupported

\* C2 as claimed: with transport sse or http, a Run call whose ctx was cancelled
\* while the call was in progress (from the start of ListenAndServe to serving)
\* returns nil.
C2_CancelledRunReturnsNil ==
    \A r \in Runs :
        (/\ IsHTTPKind
         /\ cancelPoint[r] \in {"listen", "bind", "track", "serving"}
         /\ Returned(r)) => result[r] = ErrNil

\* C2 amended: with transport sse or http, once the shutdown goroutine has
\* entered Shutdown on the call's http.Server, Run returns nil from every point
\* but the bind itself: when ListenAndServe starts, when the bound listener is
\* handed to Serve, and while serving. (A bind failure, and an accept failure
\* that comes before the goroutine has entered Shutdown, are still returned.)
C2_ShutdownThenNil ==
    [][\A r \in Runs :
         (/\ IsHTTPKind
          /\ call = r
          /\ pc \in {"listen", "track", "serving"}
          /\ pc' = "returned"
          /\ httpSrv[r].inShutdown) => result'[r] = ErrNil]_vars

C2_Witness ==
    /\ IsHTTPKind
    /\ call = 1
    /\ cancelPoint[1] = "serving"
    /\ httpSrv[1].inShutdown
    /\ pc = "returned"
    /\ result[1] = ErrNil

\* C3: for every type registered at least once, GetTransport succeeds with
\* exactly the config of the most recent successful RegisterTransport for it.
C3_GetReturnsLastRegistered ==
    /\ \A t \in DOMAIN lastReg :
         GetTransportOp(transports, t) = [config |-> lastReg[t], err |-> ErrNil]
    /\ (ret.op = "get" /\ ret.arg \in DOMAIN lastReg) =>
         (ret.err = ErrNil /\ ret.config = lastReg[ret.arg])

C3_Witness ==
    /\ ret.op = "register"
    /\ ret.err = ErrNil
    /\ ret.arg.Type \in DOMAIN ret.before
    /\ ret.before[ret.arg.Type] # ret.arg
    /\ GetTransportOp(transports, ret.arg.Type).config = ret.arg

\* C4: RegisterTransport with an empty Type returns an error and leaves the
\* registry as it was: same keys, same values.
C4_EmptyTypeRejected ==
    (ret.op = "register" /\ ret.arg.Type = "") =>
        /\ ret.err = ErrEmptyType
        /\ transports = ret.before
        /\ "" \notin DOMAIN transports

C4_Witness ==
    /\ ret.op = "register"
    /\ ret.arg.Type = ""
    /\ ret.err = ErrEmptyType
    /\ DOMAIN ret.before # {}

\* C5: GetTransport(t) returns not-found, with the zero config, exactly when no
\* successful RegisterTransport with type t has been made.
C5_NotFoundIffNeverRegistered ==
    /\ \A t \in RegTypes :
         LET g == GetTransportOp(transports, t) IN
         /\ (g.err = ErrNotFound) <=> (t \notin DOMAIN lastReg)
         /\ (g.err = ErrNotFound) => (g.config = ZeroConfig)
         /\ g.err \in {ErrNil, ErrNotFound}
    /\ ret.op = "get" =>
         /\ (ret.err = ErrNotFound) <=> (ret.arg \notin DOMAIN lastReg)
         /\ (ret.err = ErrNotFound) => (ret.config = ZeroConfig)

C5_Witness ==
    /\ DOMAIN lastReg = {TransportSSE}
    /\ lastReg[TransportSSE].Port = 9090
    /\ ret.op = "get"
    /\ ret.arg = TransportHTTP
    /\ ret.err = ErrNotFound

\* the transports of the Server that are live: bound or serving listeners and
\* open stdio sessions
ActiveListeners == {r \in Runs : httpSrv[r].listener \in {"bound", "tracked"}}
OpenSessions == {r \in Runs : session[r] = "open"}
ActiveTransports == Cardinality(ActiveListeners) + Cardinality(OpenSessions)

\* C6: the transport type chosen in NewServer is never changed by any step of
\* Run or of a transport routine, and at no moment is more than one transport
\* (listener or stdio session) of the Server active.
C6_OneTransportForLife ==
    /\ [][transportType' = transportType]_vars
    /\ [](ActiveTransports <= 1)

C6_Witness ==
    /\ call = 2
    /\ Returned(1)
    /\ ActiveTransports = 1
    /\ (2 \in ActiveListeners \/ 2 \in OpenSessions)

\* C7 as claimed: once Run has returned on a Server, no later call of Run
\* attaches a transport or starts a listener.
C7_StoppedIsTerminal ==
    \A r \in Runs :
        r > 1 =>
            /\ session[r] = "none"
            /\ httpSrv[r].listener = "none"
            /\ watcher[r] = "none"
            /\ attempts[r] = 0

\* position of the caller inside one Run call, in lifecycle order
Rank(p) ==
    CASE p = "idle" -> 0
      [] p \in {"connect", "listen"} -> 1
      [] p = "bind" -> 2
      [] p = "track" -> 3
      [] p \in {"wait", "serving"} -> 4
      [] p = "returned" -> 5

\* the lifecycle state of the spec for a position
Phase(p) ==
    CASE p = "idle" -> "Created"
      [] p \in {"connect", "listen", "bind", "track"} -> "Connected"
      [] p \in {"wait", "serving"} -> "Running"
      [] p = "returned" -> "Stopped"

\* C7 amended: within one Run call the Server only moves forward through
\* Created -> Connected -> Running -> Stopped, and the transport of a call that
\* has returned is never active again; Stopped is left only by a further call
\* of Run, which dispatches afresh on the same transport type.
C7_LifecyclePerCall ==
    /\ [][/\ call' = call => Rank(pc') >= Rank(pc)
          /\ call' # call => (Phase(pc) \in {"Created", "Stopped"} /\ call' = call + 1)]_vars
    /\ [](\A r \in Runs :
            Returned(r) => (r \notin ActiveListeners /\ r \notin OpenSessions))
    /\ [](Phase(pc) = "Stopped" <=> (call >= 1 /\ Returned(call)))

C7_Witness ==
    /\ call = 2
    /\ result[1] = ErrNil
    /\ Phase(pc) = "Running"
    /\ (httpSrv[2].listener = "tracked" \/ session[2] = "open")

\* C8: with transport stdio, a Run call whose ctx is cancelled while the call
\* is blocked in session.Wait eventually returns (stated of the first Run call
\* on the Server).
C8_CancelEndsStdioRun ==
    (transportType = TransportStdio /\ call = 1 /\ pc = "wait" /\ cancelPoint[1] = "wait")
        ~> Returned(1)

\* the errors that occurred during the r-th call, server-closed apart
ShutdownErr(r) ==
    IF watcher[r] = "done" /\ httpSrv[r].lnerr # ErrNil THEN {httpSrv[r].lnerr} ELSE {}
TransportErr(r) == IF failure[r] # "none" THEN {failure[r]} ELSE {}

\* C9 as claimed: every error that occurred during a Run call, server-closed
\* apart, is the return value of that call.
C9_EveryErrorReturned ==
    \A r \in Runs :
        Returned(r) => \A e \in TransportErr(r) \cup ShutdownErr(r) : result[r] = e

\* C9 amended: every transport error (connect, session wait, bind, accept) is
\* the return value of its Run call, and a call without one returns nil or
\* the unsupported-transport error; an error returned by Shutdown is written
\* to the log by the shutdown goroutine and is never the return value of Run.
C9_ErrorsReturnedShutdownLogged ==
    \A r \in Runs :
        /\ Returned(r) =>
             /\ \A e \in TransportErr(r) : result[r] = e
             /\ TransportErr(r) = {} => result[r] \in {ErrNil, ErrUnsupported}
             /\ result[r] = ErrUnsupported <=> transportType \notin Supported
        /\ \A e \in ShutdownErr(r) : e \in logged /\ result[r] # e

C9_Witness ==
    /\ IsHTTPKind
    /\ result[1] = ErrNil
    /\ ShutdownErr(1) = {ErrClose}
    /\ ErrClose \in logged

\* C10: a transport failure ends the Run call in the same step with that error
\* as its return value, after a single connect or listen attempt.
C10_FailureEndsRun ==
    \A r \in Runs :
        /\ attempts[r] <= 1
        /\ failure[r] # "none" =>
             /\ result[r] = failure[r]
             /\ (r < call \/ pc = "returned")
             /\ r \notin ActiveListeners
             /\ r \notin OpenSessions

C10_Witness ==
    /\ failure[1] = ErrBind
    /\ result[1] = ErrBind
    /\ attempts[1] = 1
    /\ call = 1
    /\ pc = "returned"

LogNext ==
    \/ \E t \in Threads : CallInit(t)
    \/ \E t \in Threads : CallGet(t)
    \/ \E t \in Threads : RLock(t)
    \/ \E t \in Threads : Check(t)
    \/ \E t \in Threads : InitMkdir(t)
    \/ \E t \in Threads : InitSugar(t)
    \/ \E t \in Threads : InitLock(t)
    \/ \E t \in Threads : InitAcquire(t)
    \/ \E t \in Threads : InitStore(t)
    \/ \E t \in Threads : GetReturn(t)
    \/ \E t \in Threads : CallGetConfig(t)
    \/ \E t \in Threads : CfgCheck(t)
    \/ \E t \in Threads : CfgDo(t)
    \/ \E t \in Threads : CfgStore(t)
    \/ \E t \in Threads : CfgDone(t)
    \/ \E t \in Threads : CfgReturn(t)

LogSpec == RegTypeInit /\ [][LogNext]_vars

SeqRange(q) == {q[i] : i \in DOMAIN q}

\* C11: ListTransports returns every type with a successful RegisterTransport
\* exactly once and nothing else, in some order.
C11_ListIsRegisteredSet ==
    ret.op = "list" =>
        /\ SeqRange(ret.types) = DOMAIN lastReg
        /\ Len(ret.types) = Cardinality(DOMAIN lastReg)
        /\ \A i, j \in DOMAIN ret.types : i # j => ret.types[i] # ret.types[j]

C11_Witness ==
    /\ ret.op = "list"
    /\ DOMAIN lastReg = {TransportStdio, TransportSSE, TransportHTTP}
    /\ ret.types = <<TransportHTTP, TransportStdio, TransportSSE>>

\* C12: server list writes exactly three blocks, one for each of stdio, sse and
\* http, each with a non-empty name and description that are not those of the
\* unknown-type record; and GetTransportFeatures returns the unknown-type
\* record exactly for the types outside these three.
C12_ServerListKnownTransports ==
    /\ ret.op = "server list" =>
         /\ Len(ret.out) = 3
         /\ <<ret.out[1].Transport, ret.out[2].Transport, ret.out[3].Transport>> =
                <<"Standard Input/Output", "Server-Sent Events", "Streaming HTTP (RECOMMENDED)">>
         /\ \A i \in DOMAIN ret.out :
              /\ ret.out[i].Transport \notin {"", "Unknown"}
              /\ ret.out[i].Description \notin {"", "Unknown transport type"}
    /\ ret.op = "features" =>
         /\ (ret.features = UnknownFeatures) <=> (ret.arg \notin Supported)
         /\ ret.arg \in Supported =>
              /\ ret.features.Name \notin {"", "Unknown"}
              /\ ret.features.Description \notin {"", "Unknown transport type"}

C12_Witness ==
    /\ ret.op = "server list"
    /\ Len(ret.out) = 3
    /\ ret.out[1].DefaultPort = "omitted"
    /\ ret.out[3].Transport = "Streaming HTTP (RECOMMENDED)"

\* C16: ValidateTransportType and Server.Run accept the same transports: a Run
\* call on a Server of type t ends in the unsupported-transport branch exactly
\* when ValidateTransportType(t) returns an error; both accept stdio, sse and
\* http only, case-sensitively, and reject the empty string.
C16_ValidateAgreesWithRun ==
    /\ \A r \in Runs :
         r <= call =>
            ((result[r] = ErrUnsupported) <=> (ValidateTransportTypeOp(transportType) # ErrNil))
    /\ (ValidateTransportTypeOp(transportType) = ErrNil) <=>
            (transportType \in {"stdio", "sse", "http"})

C16_Witness ==
    /\ transportType = "HTTP"
    /\ call = 1
    /\ result[1] = ErrUnsupported
    /\ ValidateTransportTypeOp("HTTP") # ErrNil

\* C13: the global logger handles are written by Init only while the write lock
\* of logMutex is held, and a GetConfig call reads a stored global config only
\* after its goroutine has synchronised with cfgOnce.
C13_GlobalsAccessedUnderSync ==
    \A t \in Threads :
        /\ lpc[t] \in {"init_sugar", "init_store"} => wlock = t
        /\ (lpc[t] = "cfg_ret" /\ globalConfig # "nil") => cfgSynced[t]

\* C14: a goroutine inside GetLogger or GetSugaredLogger never waits in
\* logMutex.Lock for a read lock it holds itself (from where the call could
\* not return).
C14_GetterNeverBlocksOnOwnLock ==
    \A t \in Threads :
        (lop[t] \in {"GetLogger", "GetSugaredLogger"} /\ wpending = t) => rlocks[t] = 0

\* the watcher goroutine of mcp start is at one of its two blocking points
sigWatcherBlocked == sigWatcher \in {"select", "send"}

\* the server of mcp start is running: Run was called and has not returned
startRunning == startPc = "run" /\ call = 1 /\ pc # "returned"

\* C15: in mcp start, once the command context is cancelled while the server
\* is running, eventually the ctx given to Run is cancelled, Run has returned
\* and the watcher goroutine is over (blocked neither in its select nor on
\* its send to sigChan).
C15_ShutdownWatcherCompletes ==
    (cmdDone /\ startRunning) ~> (ctxDone[1] /\ Returned(1) /\ ~sigWatcherBlocked)

====
